---------------------------- MODULE Spec2Model ----------------------------
(***************************************************************************)
(* Model of the droidrunnerd task queue (type Queue): Submit, Cancel,      *)
(* Clear, Position and the single consumer goroutine Run/process, with the *)
(* worker process each job spawns.                                         *)
(*                                                                         *)
(* Granularity.  Every critical section of q.mu is one action, except      *)
(* Clear: its drain loop can block on the channel while it holds the lock, *)
(* so Clear is three actions and the lock is "held" while clearPc is not   *)
(* "idle".  Channel sends and receives that happen outside the lock are    *)
(* actions of their own (SubmitSend, RunRecv).                             *)
(*                                                                         *)
(* Task records live on the heap (process keeps its *Task across Clear),   *)
(* so the heap is indexed by allocation number and q.tasks maps IDs to     *)
(* heap cells.  Allocation numbers follow the order of Submit's critical   *)
(* sections, i.e. the order of submission.                                 *)
(***************************************************************************)
EXTENDS Integers, Sequences, FiniteSets, TLC

\* Number of Submit calls explored together with Cancel and Clear.
MaxTasks == 2
\* Number of Submit calls explored when only Submit and the sequencer run.
MaxBacklog == 3
\* Number of Submit calls explored with every worker outcome.
MaxJobs == 2
\* Number of Clear calls explored.
MaxClears == 1
\* Number of submissions explored together with request validation.
MaxRuns == 1
\* Number of submissions explored with more than one credential.
MaxSecrets == 1
\* Number of Submit calls explored with fair scheduling and every worker
\* outcome.
MaxFailing == 2
\* Number of submissions explored together with server authentication.
MaxAuth == 2
\* Number of submissions explored together with the CLI client.
MaxWaits == 2
\* Capacity of the work channel q.pending (make(chan string, 100)), scaled
\* down so that a full channel is reachable with MaxBacklog submissions.
PendingCap == 1

Max(a, b) == IF a >= b THEN a ELSE b

MaxObjs ==
    Max(MaxTasks, Max(MaxBacklog, Max(MaxJobs, Max(MaxRuns, Max(MaxSecrets,
        Max(MaxFailing, Max(MaxAuth, MaxWaits)))))))
\* Heap cells, in allocation order, and the IDs randomID() can hand out.
Objs == 1..MaxObjs
IDs == 1..MaxObjs
\* The nil *Task / the absent map entry, the empty string ID, the nil *exec.Cmd.
NoTask == 0
NoID == 0
NoCmd == 0

Terminal == {"completed", "failed", "cancelled"}
Statuses == {"queued", "running"} \cup Terminal

VARIABLES
    heap,          \* allocation number -> Task record ("none": not allocated)
    nextObj,       \* next allocation number
    tasks,         \* q.tasks: ID -> heap cell, NoTask when absent
    pending,       \* q.pending: the buffered channel
    pendingOrder,  \* q.pendingOrder
    current,       \* q.current
    currentCmd,    \* q.currentCmd: NoCmd, or the heap cell whose worker it is
    sending,       \* IDs whose Submit has left its critical section and not yet sent
    seqPc,         \* position of the Run/process goroutine
    seqId,         \* id held by the Run/process goroutine
    seqTask,       \* task pointer held by process
    proc,          \* cmd.Process of the worker being run: "nil", "alive", "dead"
    killed,        \* the live worker has received SIGKILL
    outcome,       \* what cmd.Run() returned and the buffers hold
    clearPc,       \* position of the Clear call holding q.mu: "idle", "check", "recv"
    clearCount,    \* Clear's local count
    nClears,       \* number of Clear calls so far
    killIssued,    \* history: heap cells whose worker had Process.Kill() called on it
    cancelledRunning, \* history: heap cells for which Cancel returned true from "running"
    cancelledQueued,  \* history: heap cells for which Cancel returned true from "queued"
    spawned,       \* history: heap cells for which a worker process was started
    exited,        \* history: heap cells whose worker process has exited
    snapPtr,       \* the map an All() call returned: ID -> heap cell
    snapVal,       \* history: the records that map pointed to when All() returned
    srvPc,         \* position of main: "serving", "shutdown", "exited"
    httpReq,       \* the request a client sends
    resp,          \* the answer the server gives to it
    serverAPIKey,  \* serverAPIKey: DROIDRUN_SERVER_KEY, "" when not set
    clientPc,      \* position of the CLI client
    clientId       \* submitResp.TaskID of the CLI client

vars == <<heap, nextObj, tasks, pending, pendingOrder, current, currentCmd,
          sending, seqPc, seqId, seqTask, proc, killed, outcome, clearPc,
          clearCount, nClears, killIssued, cancelledRunning,
          cancelledQueued, spawned, exited, snapPtr, snapVal, srvPc,
          httpReq, resp, serverAPIKey, clientPc, clientId>>

history == <<killIssued, cancelledRunning, cancelledQueued, spawned, exited>>

snap == <<snapPtr, snapVal>>

server == <<srvPc, httpReq, resp, serverAPIKey>>

client == <<clientPc, clientId>>

\* Every variable of the Queue and of its callers: all but the server's.
queue == <<heap, nextObj, tasks, pending, pendingOrder, current, currentCmd,
           sending, seqPc, seqId, seqTask, proc, killed, outcome, clearPc,
           clearCount, nClears, history, snap>>

\* Strings the code inspects rune by rune (goal, app) are sequences of
\* runes; the others are opaque.
Space == {" ", "\t"}
Letters == {"a", "g"}
Digits == {"1"}

\* The zero TaskRequest.
NoRequest ==
    [Goal |-> <<>>, App |-> <<>>, Provider |-> "", Model |-> "",
     Reasoning |-> FALSE, Vision |-> FALSE, MaxSteps |-> 0, APIKey |-> ""]

\* The TaskRequestSafe literal built by Submit: req without its APIKey.
TaskRequestSafe(req) ==
    [Goal |-> req.Goal, App |-> req.App, Provider |-> req.Provider,
     Model |-> req.Model, Reasoning |-> req.Reasoning,
     Vision |-> req.Vision, MaxSteps |-> req.MaxSteps]

\* The zero Task.
NoRecord ==
    [ID |-> NoID, Request |-> TaskRequestSafe(NoRequest), Status |-> "none",
     Success |-> FALSE, Result |-> "", Error |-> "", Logs |-> "",
     Steps |-> "", CreatedAt |-> 0, StartedAt |-> 0, FinishedAt |-> 0,
     apiKey |-> ""]

\* time.Now() as the record t sees it.  Only the order of the instants
\* written to one record is kept: a reading is later than every instant the
\* record already holds (0 is the zero time.Time).
Now(t) == 1 + Max(t.CreatedAt, Max(t.StartedAt, t.FinishedAt))

\* The Task literal with the start time set as well.
NewTask_Started(id, now) ==
    [NoRecord EXCEPT !.ID = id, !.Status = "queued", !.CreatedAt = now,
                     !.StartedAt = now]

\* The Task literal built by Submit.
NewTask(id, now) ==
    [NoRecord EXCEPT !.ID = id, !.Status = "queued", !.CreatedAt = now]

\* What a worker run can yield: err is cmd.Run()'s error, stderr whether
\* anything was written to standard error, out the shape of standard output.
NoOutcome == [err |-> FALSE, stderr |-> FALSE, out |-> "none"]
NaturalOutcomes ==
    { [err |-> FALSE, stderr |-> FALSE, out |-> "ok_success"],
      [err |-> FALSE, stderr |-> TRUE,  out |-> "ok_nosuccess"],
      [err |-> FALSE, stderr |-> FALSE, out |-> "notok"],
      [err |-> FALSE, stderr |-> FALSE, out |-> "nonjson"],
      [err |-> TRUE,  stderr |-> TRUE,  out |-> "none"],
      [err |-> TRUE,  stderr |-> FALSE, out |-> "none"],
      [err |-> TRUE,  stderr |-> TRUE,  out |-> "nonjson"],
      [err |-> TRUE,  stderr |-> FALSE, out |-> "nonjson"] }
\* One completing and one failing outcome, for the specifications in which
\* only the job's status matters.
QueueOutcomes ==
    { [err |-> FALSE, stderr |-> FALSE, out |-> "ok_success"],
      [err |-> TRUE,  stderr |-> TRUE,  out |-> "none"] }
\* A worker ended by SIGKILL: cmd.Run() returns "signal: killed".
KilledOutcomes ==
    { [err |-> TRUE, stderr |-> s, out |-> "none"] : s \in BOOLEAN }
\* exec could not start python3.
StartFailure == [err |-> TRUE, stderr |-> FALSE, out |-> "none"]

\* q.mu is free: only Clear can block inside its critical section.
LockFree == clearPc = "idle"

\* No request under way: the client of POST /run has not been given one.
NoHTTPRequest ==
    [Path |-> "", ID |-> NoID, Method |-> "", ServerKey |-> "",
     JSON |-> FALSE, Header |-> "", Body |-> NoRequest]

\* No response written yet.
NoResponse == [code |-> 0, error |-> "", task |-> NoTask]

\* No server key set, and the CLI client not started.
InitCallers ==
    /\ serverAPIKey = ""
    /\ clientPc = "start"
    /\ clientId = NoID

\* NewQueue, and the callers' histories empty.
InitQueue ==
    /\ heap = [o \in Objs |-> NoRecord]
    /\ nextObj = 1
    /\ tasks = [i \in IDs |-> NoTask]
    /\ pending = <<>>
    /\ pendingOrder = <<>>
    /\ current = NoID
    /\ currentCmd = NoCmd
    /\ sending = {}
    /\ seqPc = "idle"
    /\ seqId = NoID
    /\ seqTask = NoTask
    /\ proc = "nil"
    /\ killed = FALSE
    /\ outcome = NoOutcome
    /\ clearPc = "idle"
    /\ clearCount = 0
    /\ nClears = 0
    /\ killIssued = {}
    /\ cancelledRunning = {}
    /\ cancelledQueued = {}
    /\ spawned = {}
    /\ exited = {}
    /\ snapPtr = [i \in IDs |-> NoTask]
    /\ snapVal = [i \in IDs |-> NoRecord]

Init ==
    /\ InitQueue
    /\ srvPc = "serving"
    /\ httpReq = NoHTTPRequest
    /\ resp = NoResponse
    /\ InitCallers

\* removePendingOrder: drop the first occurrence of id.
RECURSIVE RemoveFirst(_, _)
RemoveFirst(s, id) ==
    IF s = <<>> THEN <<>>
    ELSE IF Head(s) = id THEN Tail(s)
    ELSE <<Head(s)>> \o RemoveFirst(Tail(s), id)

\* removePendingOrder dropping the head whatever the id.
removePendingOrder_DropsHead(order, id) ==
    IF order = <<>> THEN <<>> ELSE Tail(order)

\* removePendingOrder leaving the slice as it is.
removePendingOrder_Keeps(order, id) == order

removePendingOrder(order, id) == RemoveFirst(order, id)

\* randomID(): with an ideal random source the ID is one never handed out.
FreshID == nextObj

\* Submit's own defaults, applied to the request it is given.
SubmitDefaults(req) ==
    [req EXCEPT !.Provider = IF @ = "" THEN "Google" ELSE @,
                !.Model = IF @ = "" THEN "gemini-2.0-flash" ELSE @,
                !.MaxSteps = IF @ = 0 THEN 30 ELSE @]

\* The Task literal built by Submit, with the request and the key.
NewTaskFor(id, now, req, apiKey) ==
    [NewTask(id, now) EXCEPT !.Request = TaskRequestSafe(SubmitDefaults(req)),
                             !.apiKey = apiKey]

\* Submit(req, apiKey), first half: the critical section that stores the
\* record.  max bounds the number of submissions.
Submit(id, max, req, apiKey) ==
    /\ LockFree
    /\ nextObj <= max
    /\ heap' = [heap EXCEPT ![nextObj] =
                    NewTaskFor(id, Now(NoRecord), req, apiKey)]
    /\ tasks' = [tasks EXCEPT ![id] = nextObj]
    /\ pendingOrder' = Append(pendingOrder, id)
    /\ sending' = sending \cup {id}
    /\ nextObj' = nextObj + 1
    /\ UNCHANGED <<pending, current, currentCmd, seqPc, seqId, seqTask, proc,
                   killed, outcome, clearPc, clearCount, nClears,
                   history>>
    /\ UNCHANGED snap

\* A request as validateRequest leaves it, and the key sent with it: what
\* Submit is given when only the queue is looked at.
PlainRequest ==
    [NoRequest EXCEPT !.Goal = <<"g">>, !.Provider = "Google",
                      !.Model = "gemini-2.0-flash", !.MaxSteps = 30]
PlainKey == "k"

\* Submit of a plain request, first half.
SubmitLock(id, max) ==
    /\ Submit(id, max, PlainRequest, PlainKey)
    /\ UNCHANGED server
    /\ UNCHANGED client

\* randomID(): the values four random bytes can take.  Nothing compares
\* the value with the IDs in use.
randomID == IDs

\* Submit of a plain request with the ID randomID() returns, first half.
\* Two calls in flight with one ID are not told apart, so the ID drawn is
\* any but those of the calls still at their send.
SubmitRandom(max) ==
    \E id \in randomID : id \notin sending /\ SubmitLock(id, max)

\* strings.TrimSpace
RECURSIVE TrimLeft(_)
TrimLeft(s) ==
    IF s # <<>> /\ Head(s) \in Space THEN TrimLeft(Tail(s)) ELSE s

RECURSIVE TrimRight(_)
TrimRight(s) ==
    IF s # <<>> /\ s[Len(s)] \in Space
    THEN TrimRight(SubSeq(s, 1, Len(s) - 1))
    ELSE s

TrimSpace(s) == TrimRight(TrimLeft(s))

\* The automaton of ^[a-zA-Z][a-zA-Z0-9_]*(\.[a-zA-Z][a-zA-Z0-9_]*)+$ :
\* "start" before the first rune, "first" inside the first segment, "dot"
\* right after a dot, "later" inside a later segment (the accepting state).
PackageStep(q, c) ==
    IF q = "start" THEN (IF c \in Letters THEN "first" ELSE "fail")
    ELSE IF q = "first"
      THEN (IF c \in Letters \cup Digits \cup {"_"} THEN "first"
            ELSE IF c = "." THEN "dot" ELSE "fail")
    ELSE IF q = "dot" THEN (IF c \in Letters THEN "later" ELSE "fail")
    ELSE IF q = "later"
      THEN (IF c \in Letters \cup Digits \cup {"_"} THEN "later"
            ELSE IF c = "." THEN "dot" ELSE "fail")
    ELSE "fail"

RECURSIVE PackageRun(_, _)
PackageRun(q, s) ==
    IF s = <<>> THEN q ELSE PackageRun(PackageStep(q, Head(s)), Tail(s))

\* The pattern without its closing $: a matching prefix is enough.
MatchPackage_Unanchored(s) ==
    \E n \in 1..Len(s) : PackageRun("start", SubSeq(s, 1, n)) = "later"

\* regexp.MatchString of the package-name pattern.
MatchPackage(s) == PackageRun("start", s) = "later"

validProviders ==
    {"Google", "GoogleGenAI", "Anthropic", "OpenAI", "DeepSeek", "Ollama"}

\* The model defaults with every provider given Google's model.
ModelDefault_AlwaysGemini(provider, model) ==
    IF model # "" THEN model ELSE "gemini-2.0-flash"

\* validateRequest, its model defaults: the switch on req.Provider.
ModelDefault(provider, model) ==
    IF model # "" THEN model
    ELSE IF provider \in {"Google", "GoogleGenAI"} THEN "gemini-2.0-flash"
    ELSE IF provider = "Anthropic" THEN "claude-sonnet-4-20250514"
    ELSE IF provider = "OpenAI" THEN "gpt-4o"
    ELSE IF provider = "DeepSeek" THEN "deepseek-chat"
    ELSE IF provider = "Ollama" THEN "llama3.2"
    ELSE model

\* The clamping with its upper limit left out.
ClampMaxSteps_NoUpper(n) == IF n <= 0 THEN 30 ELSE n

\* validateRequest, its MaxSteps clamping.
ClampMaxSteps(n) == IF n <= 0 THEN 30 ELSE IF n > 100 THEN 100 ELSE n

\* The key test with no provider exempt.
KeyMissing_NoExemption(apiKey, provider) == apiKey = ""

\* validateRequest, its test for a missing API key.
KeyMissing(apiKey, provider) == apiKey = "" /\ provider # "Ollama"

\* validateRequest(req, apiKey): the error it returns ("" for nil) and req
\* as it leaves it, which is as far as it got before it returned.
validateRequest(req, apiKey) ==
    LET r1 == [req EXCEPT !.Goal = TrimSpace(@)]
        r2 == [r1 EXCEPT !.Provider = IF @ = "" THEN "Google" ELSE @]
        r3 == [r2 EXCEPT !.Model = ModelDefault(r2.Provider, @)]
        r4 == [r3 EXCEPT !.MaxSteps = ClampMaxSteps(@)]
    IN  IF r1.Goal = <<>>
          THEN [err |-> "goal is required", req |-> r1]
        ELSE IF r2.Provider \notin validProviders
          THEN [err |-> "invalid provider", req |-> r2]
        ELSE IF KeyMissing(apiKey, r4.Provider)
          THEN [err |-> "API key required", req |-> r4]
        ELSE IF r4.App # <<>> /\ ~MatchPackage(r4.App)
          THEN [err |-> "invalid app package name", req |-> r4]
        ELSE [err |-> "", req |-> r4]

\* handleRun: the key it passes on is the header's, else the body's.
RequestKey(r) == IF r.Header # "" THEN r.Header ELSE r.Body.APIKey

\* handleRun for the request r, up to the end of Submit's critical section;
\* resp is the response it answers with (an accepted request is answered
\* once Submit has sent the ID).
handleRun(r, max) ==
    /\ srvPc = "serving"
    /\ r # NoHTTPRequest
    /\ IF r.Method # "POST"
       THEN /\ resp' = [code |-> 405, error |-> "POST only", task |-> NoTask]
            /\ UNCHANGED queue
       ELSE IF ~r.JSON
       THEN /\ resp' = [code |-> 400, error |-> "invalid JSON",
                        task |-> NoTask]
            /\ UNCHANGED queue
       ELSE LET v == validateRequest([r.Body EXCEPT !.APIKey = ""],
                                     RequestKey(r))
            IN  IF v.err # ""
                THEN /\ resp' = [code |-> 400, error |-> v.err,
                                 task |-> NoTask]
                     /\ UNCHANGED queue
                ELSE /\ Submit(FreshID, max, v.req, RequestKey(r))
                     /\ resp' = [code |-> 200, error |-> "",
                                 task |-> nextObj]
    /\ UNCHANGED <<srvPc, httpReq, serverAPIKey>>
    /\ UNCHANGED client

\* Submit returning without the send.
SubmitSend_NoSend(id) ==
    /\ id \in sending
    /\ sending' = sending \ {id}
    /\ UNCHANGED <<heap, nextObj, tasks, pending, pendingOrder, current,
                   currentCmd, seqPc, seqId, seqTask, proc, killed, outcome,
                   clearPc, clearCount, nClears, history>>
    /\ UNCHANGED snap
    /\ UNCHANGED server
    /\ UNCHANGED client

\* Submit, second half: q.pending <- id, which blocks while the channel is full.
SubmitSend(id) ==
    /\ id \in sending
    /\ Len(pending) < PendingCap
    /\ pending' = Append(pending, id)
    /\ sending' = sending \ {id}
    /\ UNCHANGED <<heap, nextObj, tasks, pendingOrder, current, currentCmd,
                   seqPc, seqId, seqTask, proc, killed, outcome, clearPc,
                   clearCount, nClears, history>>
    /\ UNCHANGED snap
    /\ UNCHANGED server
    /\ UNCHANGED client

\* Run: for id := range q.pending.
RunRecv ==
    /\ seqPc = "idle"
    /\ Len(pending) > 0
    /\ seqId' = Head(pending)
    /\ pending' = Tail(pending)
    /\ seqPc' = "dequeued"
    /\ UNCHANGED <<heap, nextObj, tasks, pendingOrder, current, currentCmd,
                   sending, seqTask, proc, killed, outcome, clearPc,
                   clearCount, nClears, history>>
    /\ UNCHANGED snap
    /\ UNCHANGED server
    /\ UNCHANGED client

\* process, first critical section: the only test made on the dequeued
\* task is task == nil.
ProcessSkips(id) == tasks[id] = NoTask

\* process, first critical section.
ProcessBegin ==
    /\ seqPc = "dequeued"
    /\ LockFree
    /\ IF ProcessSkips(seqId)
       THEN /\ seqPc' = "idle"
            /\ seqId' = NoID
            /\ UNCHANGED <<heap, current, pendingOrder, seqTask>>
       ELSE /\ heap' = [heap EXCEPT ![tasks[seqId]].Status = "running",
                                    ![tasks[seqId]].StartedAt =
                                        Now(heap[tasks[seqId]])]
            /\ current' = seqId
            /\ pendingOrder' = removePendingOrder(pendingOrder, seqId)
            /\ seqTask' = tasks[seqId]
            /\ seqPc' = "marked"
                    /\ UNCHANGED seqId
    /\ UNCHANGED <<nextObj, tasks, pending, currentCmd, sending, proc, killed,
                   outcome, clearPc, clearCount, nClears, history>>
    /\ UNCHANGED snap
    /\ UNCHANGED server
    /\ UNCHANGED client

\* process, second critical section: q.currentCmd = cmd.
ProcessRegister ==
    /\ seqPc = "marked"
    /\ LockFree
    /\ currentCmd' = seqTask
    /\ seqPc' = "registered"
    /\ UNCHANGED <<heap, nextObj, tasks, pending, pendingOrder, current,
                   sending, seqId, seqTask, proc, killed, outcome, clearPc,
                   clearCount, nClears, history>>
    /\ UNCHANGED snap
    /\ UNCHANGED server
    /\ UNCHANGED client

\* cmd.Run(), its Start: the worker is spawned and cmd.Process is set.
ProcessStart ==
    /\ seqPc = "registered"
    /\ proc' = "alive"
    /\ spawned' = spawned \cup {seqTask}
    /\ seqPc' = "run"
    /\ UNCHANGED <<heap, nextObj, tasks, pending, pendingOrder, current,
                   currentCmd, sending, seqId, seqTask, killed, outcome,
                   clearPc, clearCount, nClears, killIssued,
                   cancelledRunning, cancelledQueued, exited>>
    /\ UNCHANGED snap
    /\ UNCHANGED server
    /\ UNCHANGED client

\* cmd.Run(), its Start failing (python3 cannot be executed): cmd.Process
\* stays nil and Run returns the error.
ProcessStartFails ==
    /\ seqPc = "registered"
    /\ outcome' = StartFailure
    /\ seqPc' = "ran"
    /\ UNCHANGED <<heap, nextObj, tasks, pending, pendingOrder, current,
                   currentCmd, sending, seqId, seqTask, proc, killed, clearPc,
                   clearCount, nClears, history>>
    /\ UNCHANGED snap
    /\ UNCHANGED server
    /\ UNCHANGED client

\* The worker process exits (by itself with an outcome of outs, or because
\* it was killed) and cmd.Run() returns.
WorkerExit(outs) ==
    /\ seqPc = "run"
    /\ proc = "alive"
    /\ outcome' \in (IF killed THEN KilledOutcomes ELSE outs)
    /\ proc' = "dead"
    /\ exited' = exited \cup {seqTask}
    /\ seqPc' = "ran"
    /\ UNCHANGED <<heap, nextObj, tasks, pending, pendingOrder, current,
                   currentCmd, sending, seqId, seqTask, killed, clearPc,
                   clearCount, nClears, killIssued, cancelledRunning,
                   cancelledQueued, spawned>>
    /\ UNCHANGED snap
    /\ UNCHANGED server
    /\ UNCHANGED client

\* FinishedTask with the cancelled check left out: a late result overwrites
\* the cancellation.
FinishedTask_NoCancelCheck(t, res, now) ==
    LET base == [t EXCEPT !.FinishedAt = now,
                          !.Logs = IF res.stderr THEN "stderr" ELSE ""]
    IN  IF res.err
          THEN [base EXCEPT !.Status = "failed",
                            !.Error = IF res.stderr THEN "stderr"
                                      ELSE "exit error"]
        ELSE IF res.out = "nonjson"
          THEN [base EXCEPT !.Status = "failed",
                            !.Error = "invalid worker output: raw"]
        ELSE IF res.out = "notok"
          THEN [base EXCEPT !.Status = "failed", !.Error = "envelope error"]
        ELSE [base EXCEPT !.Status = "completed",
                          !.Success = (res.out = "ok_success"),
                          !.Result = "reason", !.Steps = "trace"]

\* FinishedTask with the assignment of "completed" left out.
FinishedTask_NoCompleted(t, res, now) ==
    LET base == [t EXCEPT !.FinishedAt = now,
                          !.Logs = IF res.stderr THEN "stderr" ELSE ""]
    IN  IF t.Status = "cancelled" THEN base
        ELSE IF res.err
          THEN [base EXCEPT !.Status = "failed",
                            !.Error = IF res.stderr THEN "stderr"
                                      ELSE "exit error"]
        ELSE IF res.out = "nonjson"
          THEN [base EXCEPT !.Status = "failed",
                            !.Error = "invalid worker output: raw"]
        ELSE IF res.out = "notok"
          THEN [base EXCEPT !.Status = "failed", !.Error = "envelope error"]
        ELSE [base EXCEPT !.Success = (res.out = "ok_success"),
                          !.Result = "reason", !.Steps = "trace"]

\* FinishedTask with the assignment of "failed" left out on a worker error.
FinishedTask_NoFailed(t, res, now) ==
    LET base == [t EXCEPT !.FinishedAt = now,
                          !.Logs = IF res.stderr THEN "stderr" ELSE ""]
    IN  IF t.Status = "cancelled" THEN base
        ELSE IF res.err
          THEN [base EXCEPT !.Error = IF res.stderr THEN "stderr"
                                      ELSE "exit error"]
        ELSE IF res.out = "nonjson"
          THEN [base EXCEPT !.Status = "failed",
                            !.Error = "invalid worker output: raw"]
        ELSE IF res.out = "notok"
          THEN [base EXCEPT !.Status = "failed", !.Error = "envelope error"]
        ELSE [base EXCEPT !.Status = "completed",
                          !.Success = (res.out = "ok_success"),
                          !.Result = "reason", !.Steps = "trace"]

\* FinishedTask taking the exit error whatever standard error holds.
FinishedTask_ExitErrorOnly(t, res, now) ==
    LET base == [t EXCEPT !.FinishedAt = now,
                          !.Logs = IF res.stderr THEN "stderr" ELSE ""]
    IN  IF t.Status = "cancelled" THEN base
        ELSE IF res.err
          THEN [base EXCEPT !.Status = "failed", !.Error = "exit error"]
        ELSE IF res.out = "nonjson"
          THEN [base EXCEPT !.Status = "failed",
                            !.Error = "invalid worker output: raw"]
        ELSE IF res.out = "notok"
          THEN [base EXCEPT !.Status = "failed", !.Error = "envelope error"]
        ELSE [base EXCEPT !.Status = "completed",
                          !.Success = (res.out = "ok_success"),
                          !.Result = "reason", !.Steps = "trace"]

\* process, last critical section: the record after the worker's outcome
\* res has been written to it at time now.
FinishedTask(t, res, now) ==
    LET base == [t EXCEPT !.FinishedAt = now,
                          !.Logs = IF res.stderr THEN "stderr" ELSE ""]
    IN  IF t.Status = "cancelled" THEN base
        ELSE IF res.err
          THEN [base EXCEPT !.Status = "failed",
                            !.Error = IF res.stderr THEN "stderr"
                                      ELSE "exit error"]
        ELSE IF res.out = "nonjson"
          THEN [base EXCEPT !.Status = "failed",
                            !.Error = "invalid worker output: raw"]
        ELSE IF res.out = "notok"
          THEN [base EXCEPT !.Status = "failed", !.Error = "envelope error"]
        ELSE [base EXCEPT !.Status = "completed",
                          !.Success = (res.out = "ok_success"),
                          !.Result = "reason", !.Steps = "trace"]

\* ProcessFinish after cmd.Start() instead of cmd.Run(): process does not
\* wait for the worker to exit.
ProcessFinish_NoWait ==
    /\ seqPc \in {"run", "ran"}
    /\ LockFree
    /\ currentCmd' = NoCmd
    /\ current' = NoID
    /\ heap' = [heap EXCEPT ![seqTask] = FinishedTask(heap[seqTask], outcome,
                                                    Now(heap[seqTask]))]
    /\ seqPc' = "idle"
    /\ seqId' = NoID
    /\ seqTask' = NoTask
    /\ proc' = "nil"
    /\ killed' = FALSE
    /\ outcome' = NoOutcome
    /\ UNCHANGED <<nextObj, tasks, pending, pendingOrder, sending, clearPc,
                   clearCount, nClears, history>>
    /\ UNCHANGED snap
    /\ UNCHANGED server
    /\ UNCHANGED client

\* ProcessFinish leaving the Run loop when the job failed.
ProcessFinish_HaltsOnFailure ==
    /\ seqPc = "ran"
    /\ LockFree
    /\ currentCmd' = NoCmd
    /\ current' = NoID
    /\ heap' = [heap EXCEPT ![seqTask] = FinishedTask(heap[seqTask], outcome,
                                                    Now(heap[seqTask]))]
    /\ seqPc' = IF heap'[seqTask].Status = "failed" THEN "halted" ELSE "idle"
    /\ seqId' = NoID
    /\ seqTask' = NoTask
    /\ proc' = "nil"
    /\ killed' = FALSE
    /\ outcome' = NoOutcome
    /\ UNCHANGED <<nextObj, tasks, pending, pendingOrder, sending, clearPc,
                   clearCount, nClears, history>>
    /\ UNCHANGED snap
    /\ UNCHANGED server
    /\ UNCHANGED client

\* ProcessFinish putting a failed job back in the queue.
ProcessFinish_RetriesFailed ==
    /\ seqPc = "ran"
    /\ LockFree
    /\ currentCmd' = NoCmd
    /\ current' = NoID
    /\ LET done == FinishedTask(heap[seqTask], outcome, Now(heap[seqTask]))
       IN  IF done.Status = "failed"
           THEN /\ heap' = [heap EXCEPT ![seqTask] =
                               [done EXCEPT !.Status = "queued"]]
                /\ pending' = Append(pending, seqId)
           ELSE /\ heap' = [heap EXCEPT ![seqTask] = done]
                /\ UNCHANGED pending
    /\ seqPc' = "idle"
    /\ seqId' = NoID
    /\ seqTask' = NoTask
    /\ proc' = "nil"
    /\ killed' = FALSE
    /\ outcome' = NoOutcome
    /\ UNCHANGED <<nextObj, tasks, pendingOrder, sending, clearPc,
                   clearCount, nClears, history>>
    /\ UNCHANGED snap
    /\ UNCHANGED server
    /\ UNCHANGED client

\* process, last critical section.
ProcessFinish ==
    /\ seqPc = "ran"
    /\ LockFree
    /\ currentCmd' = NoCmd
    /\ current' = NoID
    /\ heap' = [heap EXCEPT ![seqTask] = FinishedTask(heap[seqTask], outcome,
                                                    Now(heap[seqTask]))]
    /\ seqPc' = "idle"
    /\ seqId' = NoID
    /\ seqTask' = NoTask
    /\ proc' = "nil"
    /\ killed' = FALSE
    /\ outcome' = NoOutcome
    /\ UNCHANGED <<nextObj, tasks, pending, pendingOrder, sending, clearPc,
                   clearCount, nClears, history>>
    /\ UNCHANGED snap
    /\ UNCHANGED server
    /\ UNCHANGED client

\* Cancel: the condition under which it calls q.currentCmd.Process.Kill().
CancelKills(id) ==
    /\ heap[tasks[id]].Status = "running"
    /\ currentCmd # NoCmd
    /\ current = id

\* Cancel: the kill it calls hits a nil cmd.Process and panics.
CancelPanics(id) ==
    /\ tasks[id] # NoTask
    /\ CancelKills(id)
    /\ proc = "nil"

\* Cancel(id) called in the current state returns true.
CancelReturnsTrue(id) ==
    /\ tasks[id] # NoTask
    /\ ~CancelPanics(id)
    /\ heap[tasks[id]].Status \in {"queued", "running"}

\* Cancel(id), one critical section.  Process.Kill() on a Cmd that was
\* registered and not started (cmd.Process is nil) dereferences nil: the
\* call panics before it changes anything, its deferred Unlock runs and
\* net/http recovers the handler, so the call leaves the state as it was.
QueueCancel(id) ==
    /\ LockFree
    /\ IF tasks[id] = NoTask
       THEN UNCHANGED <<heap, pendingOrder, killed, history>>
       ELSE IF CancelPanics(id)
       THEN UNCHANGED <<heap, pendingOrder, killed, history>>
       ELSE /\ killed' = (killed \/ (CancelKills(id) /\ proc = "alive"))
            /\ killIssued' = IF CancelKills(id)
                             THEN killIssued \cup {currentCmd}
                             ELSE killIssued
            /\ IF CancelReturnsTrue(id)
               THEN /\ heap' = [heap EXCEPT ![tasks[id]].Status = "cancelled",
                                            ![tasks[id]].FinishedAt =
                                                Now(heap[tasks[id]])]
                    /\ pendingOrder' = removePendingOrder(pendingOrder, id)
                                    /\ cancelledRunning' =
                         IF heap[tasks[id]].Status = "running"
                         THEN cancelledRunning \cup {tasks[id]}
                         ELSE cancelledRunning
                    /\ cancelledQueued' =
                         IF heap[tasks[id]].Status = "queued"
                         THEN cancelledQueued \cup {tasks[id]}
                         ELSE cancelledQueued
               ELSE UNCHANGED <<heap, pendingOrder, cancelledRunning,
                                cancelledQueued>>
            /\ UNCHANGED <<spawned, exited>>
    /\ UNCHANGED <<nextObj, tasks, pending, current, currentCmd, sending,
                   seqPc, seqId, seqTask, proc, outcome, clearPc, clearCount,
                   nClears>>
    /\ UNCHANGED snap

\* Cancel(id) called by some client of the queue.
Cancel(id) ==
    /\ QueueCancel(id)
    /\ UNCHANGED server
    /\ UNCHANGED client

\* len(q.tasks) taken for the number of pending jobs.
NumTasks_PendingOnly == Len(pendingOrder)

\* len(q.tasks)
NumTasks == Cardinality({i \in IDs : tasks[i] # NoTask})

\* Clear, up to its drain loop.  The kill of a registered, not yet started
\* Cmd panics as in Cancel.
QueueClear ==
    /\ LockFree
    /\ nClears < MaxClears
    /\ IF currentCmd # NoCmd /\ proc = "nil"
       THEN UNCHANGED <<tasks, current, pendingOrder, clearPc, clearCount,
                        nClears, killed, history>>
       ELSE /\ nClears' = nClears + 1
            /\ killed' = (killed \/ (currentCmd # NoCmd /\ proc = "alive"))
            /\ killIssued' = IF currentCmd # NoCmd
                             THEN killIssued \cup {currentCmd}
                             ELSE killIssued
            /\ clearCount' = NumTasks
            /\ tasks' = [i \in IDs |-> NoTask]
            /\ current' = NoID
            /\ pendingOrder' = <<>>
            /\ clearPc' = "check"
            /\ UNCHANGED <<cancelledRunning, cancelledQueued, spawned, exited>>
    /\ UNCHANGED <<heap, nextObj, pending, currentCmd, sending, seqPc, seqId,
                   seqTask, proc, outcome>>
    /\ UNCHANGED snap

\* Clear called by some client of the queue, up to its drain loop.
ClearBegin ==
    /\ QueueClear
    /\ UNCHANGED server
    /\ UNCHANGED client

\* Clear, the loop test len(q.pending) > 0; when it fails Clear returns
\* count and releases the lock.
ClearCheck ==
    /\ clearPc = "check"
    /\ clearPc' = IF Len(pending) > 0 THEN "recv" ELSE "idle"
    /\ UNCHANGED <<heap, nextObj, tasks, pending, pendingOrder, current,
                   currentCmd, sending, seqPc, seqId, seqTask, proc, killed,
                   outcome, clearCount, nClears, history>>
    /\ UNCHANGED snap
    /\ UNCHANGED server
    /\ UNCHANGED client

\* Clear, the loop body <-q.pending, which blocks while the channel is empty.
ClearRecv ==
    /\ clearPc = "recv"
    /\ Len(pending) > 0
    /\ pending' = Tail(pending)
    /\ clearPc' = "check"
    /\ UNCHANGED <<heap, nextObj, tasks, pendingOrder, current, currentCmd,
                   sending, seqPc, seqId, seqTask, proc, killed, outcome,
                   clearCount, nClears, history>>
    /\ UNCHANGED snap
    /\ UNCHANGED server
    /\ UNCHANGED client

\* Index of the first occurrence of id in s, 0 when there is none.
RECURSIVE IndexOf(_, _)
IndexOf(s, id) ==
    IF s = <<>> THEN 0
    ELSE IF Head(s) = id THEN 1
    ELSE IF IndexOf(Tail(s), id) = 0 THEN 0
    ELSE 1 + IndexOf(Tail(s), id)

\* Position(id), one read critical section.
Position(id) ==
    IF current = id THEN 0
    ELSE IF IndexOf(pendingOrder, id) # 0 THEN IndexOf(pendingOrder, id)
    ELSE -1

\* Size(): len(q.pending), read without the lock.
Size == Len(pending)

\* Current(), one read critical section.
Current == current

\* All(), one read critical section: a new map holding the same *Task
\* pointers.  One call is explored; snapVal keeps what the caller read
\* through the map when the call returned.
All ==
    /\ LockFree
    /\ snapPtr = [i \in IDs |-> NoTask]
    /\ snapPtr' = tasks
    /\ snapVal' = [i \in IDs |-> IF tasks[i] = NoTask THEN NoRecord
                                  ELSE heap[tasks[i]]]
    /\ UNCHANGED <<heap, nextObj, tasks, pending, pendingOrder, current,
                   currentCmd, sending, seqPc, seqId, seqTask, proc, killed,
                   outcome, clearPc, clearCount, nClears, history>>
    /\ UNCHANGED server
    /\ UNCHANGED client

\* truncate(s, n)
truncate(s, n) == IF Len(s) <= n THEN s ELSE SubSeq(s, 1, n) \o <<"...">>

\* json.Marshal of a Task with the key field exported.
MarshalTask_WithKey(t) ==
    [id |-> t.ID, request |-> t.Request, status |-> t.Status,
     success |-> t.Success, result |-> t.Result, error |-> t.Error,
     logs |-> t.Logs, steps |-> t.Steps, created_at |-> t.CreatedAt,
     started_at |-> t.StartedAt, finished_at |-> t.FinishedAt,
     api_key |-> t.apiKey]

\* json.Marshal of a Task, which Get, All and Submit's callers encode: the
\* exported fields under their tags; the unexported apiKey is skipped.
MarshalTask(t) ==
    [id |-> t.ID, request |-> t.Request, status |-> t.Status,
     success |-> t.Success, result |-> t.Result, error |-> t.Error,
     logs |-> t.Logs, steps |-> t.Steps, created_at |-> t.CreatedAt,
     started_at |-> t.StartedAt, finished_at |-> t.FinishedAt]

\* process: the input it marshals for the worker's standard input.
WorkerInput(t) ==
    [goal |-> t.Request.Goal, app |-> t.Request.App,
     provider |-> t.Request.Provider, model |-> t.Request.Model,
     reasoning |-> t.Request.Reasoning, vision |-> t.Request.Vision,
     max_steps |-> t.Request.MaxSteps, api_key |-> t.apiKey]

\* process: the line it logs when it starts the task.
StartLine(t) == <<t.ID, "Starting task", truncate(t.Request.Goal, 50)>>

\* process: the line it logs when the worker has returned res.
FinishLine(t, res) ==
    IF t.Status = "cancelled" THEN <<t.ID, "Cancelled">>
    ELSE IF res.err
      THEN <<t.ID, "Failed", FinishedTask(t, res, 0).Error>>
    ELSE <<t.ID, "Completed", FinishedTask(t, res, 0).Success>>

\* main: SIGINT or SIGTERM arrives; srv.Shutdown stops the listener.
Signal ==
    /\ srvPc = "serving"
    /\ srvPc' = "shutdown"
    /\ UNCHANGED <<queue, httpReq, resp, serverAPIKey>>
    /\ UNCHANGED client

\* main: srv.Shutdown returns (the handlers are done or its 30 seconds are
\* over), done is closed and main returns: the server process exits.
ServerExit ==
    /\ srvPc = "shutdown"
    /\ srvPc' = "exited"
    /\ UNCHANGED <<queue, httpReq, resp, serverAPIKey>>
    /\ UNCHANGED client

\* What the handlers other than handleRun leave alone besides the queue.
Served == <<srvPc, httpReq, serverAPIKey, client>>

\* A response without a task.
Answer(code, error) == [code |-> code, error |-> error, task |-> NoTask]

\* handleHealth
handleHealth(r) ==
    /\ resp' = IF r.Method # "GET" THEN Answer(405, "GET only")
               ELSE Answer(200, "")
    /\ UNCHANGED queue
    /\ UNCHANGED Served

\* handleTask, GET: the body it writes for the task id.
TaskBody(id) ==
    IF tasks[id] = NoTask THEN [error |-> "task not found"]
    ELSE MarshalTask(heap[tasks[id]])

\* handleTask.  A Cancel that panics leaves the request without a response.
handleTask(r) ==
    /\ IF r.ID = NoID
       THEN /\ resp' = Answer(400, "task ID required")
            /\ UNCHANGED queue
       ELSE IF r.Method = "DELETE"
       THEN /\ QueueCancel(r.ID)
            /\ resp' = IF CancelPanics(r.ID) THEN Answer(0, "aborted")
                       ELSE IF CancelReturnsTrue(r.ID) THEN Answer(200, "")
                       ELSE Answer(400, "cannot cancel")
       ELSE IF r.Method # "GET"
       THEN /\ resp' = Answer(405, "GET or DELETE only")
            /\ UNCHANGED queue
       ELSE /\ LockFree
            /\ resp' = IF tasks[r.ID] = NoTask
                       THEN Answer(404, "task not found")
                       ELSE [code |-> 200, error |-> "", task |-> tasks[r.ID]]
            /\ UNCHANGED queue
    /\ UNCHANGED Served

\* handleQueue; its DELETE is answered once Clear has returned.
handleQueue(r) ==
    /\ IF r.Method = "DELETE"
       THEN /\ QueueClear
            /\ resp' = IF currentCmd # NoCmd /\ proc = "nil"
                       THEN Answer(0, "aborted")
                       ELSE Answer(200, "")
       ELSE IF r.Method # "GET"
       THEN /\ resp' = Answer(405, "GET or DELETE only")
            /\ UNCHANGED queue
       ELSE /\ LockFree
            /\ resp' = Answer(200, "")
            /\ UNCHANGED queue
    /\ UNCHANGED Served

\* ServeHTTP's test accepting a request that carries no X-Server-Key.
Unauthorized_MissingAccepted(r) ==
    /\ serverAPIKey # ""
    /\ r.Path # "/health"
    /\ r.ServerKey # ""
    /\ r.ServerKey # serverAPIKey

\* ServeHTTP: the request is refused for want of the server key.
Unauthorized(r) ==
    /\ serverAPIKey # ""
    /\ r.Path # "/health"
    /\ r.ServerKey # serverAPIKey

\* ServeHTTP for the request r: the server key, then the mux.
ServeHTTP(r, max) ==
    /\ srvPc = "serving"
    /\ r # NoHTTPRequest
    /\ IF Unauthorized(r)
       THEN /\ resp' = Answer(401, "unauthorized")
            /\ UNCHANGED queue
            /\ UNCHANGED Served
       ELSE IF r.Path = "/run" THEN handleRun(r, max)
       ELSE IF r.Path = "/task/" THEN handleTask(r)
       ELSE IF r.Path = "/queue" THEN handleQueue(r)
       ELSE IF r.Path = "/health" THEN handleHealth(r)
       ELSE /\ resp' = Answer(404, "404 page not found")
            /\ UNCHANGED queue
            /\ UNCHANGED Served

\* The CLI client: POST /run of a plain request, up to the end of Submit's
\* critical section.  The response reaches the client once Submit has sent
\* the ID.
ClientSubmit(max) ==
    /\ clientPc = "start"
    /\ Submit(FreshID, max, PlainRequest, PlainKey)
    /\ clientId' = FreshID
    /\ clientPc' = "waiting"
    /\ UNCHANGED server

\* The CLI client: json Decode of a response body into TaskStatus, of which
\* the loop reads Status and Success; a field the body lacks stays zero.
DecodeStatus(body) ==
    [Status |-> IF "status" \in DOMAIN body THEN body.status ELSE "",
     Success |-> IF "success" \in DOMAIN body THEN body.success ELSE FALSE]

\* The CLI client: where the switch on status.Status takes it.
AfterPoll(status) ==
    IF status.Status = "completed"
      THEN IF status.Success THEN "exit0" ELSE "exit1"
    ELSE IF status.Status = "failed" THEN "exit1"
    ELSE IF status.Status = "cancelled" THEN "exit130"
    ELSE "waiting"

\* The CLI client: one turn of its poll loop, GET /task/<id>.
ClientPoll ==
    /\ clientPc = "waiting"
    /\ clientId \notin sending
    /\ LockFree
    /\ clientPc' = AfterPoll(DecodeStatus(TaskBody(clientId)))
    /\ UNCHANGED clientId
    /\ UNCHANGED queue
    /\ UNCHANGED server

\* The CLI client: SIGINT or SIGTERM; DELETE /task/<id>, then os.Exit(130)
\* whatever the answer.
ClientInterrupt ==
    /\ clientPc = "waiting"
    /\ clientId \notin sending
    /\ QueueCancel(clientId)
    /\ clientPc' = "exit130"
    /\ UNCHANGED clientId
    /\ UNCHANGED server

Next ==
    \/ SubmitLock(FreshID, MaxTasks)
    \/ \E id \in IDs : SubmitSend(id)
    \/ \E id \in IDs : Cancel(id)
    \/ ClearBegin
    \/ ClearCheck
    \/ ClearRecv
    \/ RunRecv
    \/ ProcessBegin
    \/ ProcessRegister
    \/ ProcessStart
    \/ ProcessStartFails
    \/ WorkerExit(QueueOutcomes)
    \/ ProcessFinish

Spec == Init /\ [][Next]_vars

\* Submit and the sequencer alone: a backlog of submissions.
NextBacklog ==
    \/ SubmitLock(FreshID, MaxBacklog)
    \/ \E id \in IDs : SubmitSend(id)
    \/ RunRecv
    \/ ProcessBegin
    \/ ProcessRegister
    \/ ProcessStart
    \/ ProcessStartFails
    \/ WorkerExit(QueueOutcomes)
    \/ ProcessFinish

SpecBacklog == Init /\ [][NextBacklog]_vars

\* Submit, Cancel and the sequencer, with every outcome of the worker.
NextWorker ==
    \/ SubmitLock(FreshID, MaxJobs)
    \/ \E id \in IDs : SubmitSend(id)
    \/ \E id \in IDs : Cancel(id)
    \/ RunRecv
    \/ ProcessBegin
    \/ ProcessRegister
    \/ ProcessStart
    \/ ProcessStartFails
    \/ WorkerExit(NaturalOutcomes)
    \/ ProcessFinish

SpecWorker == Init /\ [][NextWorker]_vars

\* Every operation, and a caller of All().
NextSnapshot ==
    \/ SubmitLock(FreshID, MaxTasks)
    \/ \E id \in IDs : SubmitSend(id)
    \/ \E id \in IDs : Cancel(id)
    \/ ClearBegin
    \/ ClearCheck
    \/ ClearRecv
    \/ RunRecv
    \/ ProcessBegin
    \/ ProcessRegister
    \/ ProcessStart
    \/ ProcessStartFails
    \/ WorkerExit(QueueOutcomes)
    \/ ProcessFinish
    \/ All

SpecSnapshot == Init /\ [][NextSnapshot]_vars

\* Submit, Cancel and the sequencer: no Clear.
NextNoClear ==
    \/ SubmitLock(FreshID, MaxTasks)
    \/ \E id \in IDs : SubmitSend(id)
    \/ \E id \in IDs : Cancel(id)
    \/ RunRecv
    \/ ProcessBegin
    \/ ProcessRegister
    \/ ProcessStart
    \/ ProcessStartFails
    \/ WorkerExit(QueueOutcomes)
    \/ ProcessFinish

\* What the Go scheduler and the assumption that every worker exits give:
\* a goroutine that can take its next step takes it (the Run goroutine, a
\* Submit at its channel send, a Clear inside its drain loop), and a running
\* worker exits.  Callers are free never to call.
Fairness ==
    /\ WF_vars(\E id \in IDs : SubmitSend(id))
    /\ WF_vars(RunRecv)
    /\ WF_vars(ProcessBegin)
    /\ WF_vars(ProcessRegister)
    /\ WF_vars(ProcessStart \/ ProcessStartFails)
    /\ WF_vars(WorkerExit(QueueOutcomes))
    /\ WF_vars(ProcessFinish)
    /\ WF_vars(ClearCheck)
    /\ WF_vars(ClearRecv)

FairSpecNoClear == Init /\ [][NextNoClear]_vars /\ Fairness

FairSpec == Init /\ [][Next]_vars /\ Fairness

\* The requests a client of POST /run can send.
Goals ==
    { <<>>, <<" ">>, <<"\t", " ">>, <<"g">>, <<" ", "g", "\t">>,
      <<"g", " ", "g">> }
Apps ==
    { <<>>, <<"a", ".", "g">>, <<"a", "_", ".", "g", "1">>, <<"a">>,
      <<"1", ".", "a">>, <<"a", ".">>, <<"a", ".", "g", "-">> }
Providers == validProviders \cup {"", "Bogus"}
Models == {"", "m"}
StepInputs == {-1, 0, 1, 50, 100, 101}
HeaderKeys == {"", "k"}
BodyKeys == {"", "b"}

Requests ==
    { [Path |-> "/run", ID |-> NoID, Method |-> "POST", ServerKey |-> "",
       JSON |-> TRUE, Header |-> h,
       Body |-> [NoRequest EXCEPT !.Goal = g, !.App = a, !.Provider = p,
                                  !.Model = m, !.MaxSteps = n, !.APIKey = b]] :
        h \in HeaderKeys, g \in Goals, a \in Apps, p \in Providers,
        m \in Models, n \in StepInputs, b \in BodyKeys }
    \cup
    { [Path |-> "/run", ID |-> NoID, Method |-> "GET", ServerKey |-> "",
       JSON |-> TRUE, Header |-> "k", Body |-> PlainRequest],
      [Path |-> "/run", ID |-> NoID, Method |-> "POST", ServerKey |-> "",
       JSON |-> FALSE, Header |-> "k", Body |-> NoRequest] }

\* The Submission Gate: one client sending its request to POST /run, other
\* accepted submissions, and the channel sends.
InitGate ==
    /\ InitQueue
    /\ srvPc = "serving"
    /\ httpReq \in Requests
    /\ resp = NoResponse
    /\ InitCallers

NextGate ==
    \/ handleRun(httpReq, MaxRuns)
    \/ SubmitLock(FreshID, MaxRuns)
    \/ \E id \in IDs : SubmitSend(id)

SpecGate == InitGate /\ [][NextGate]_vars

\* Accepted requests that differ in nothing but the credential.
SecretKeys == {"", "k", "k2"}
SecretRequests ==
    { [Path |-> "/run", ID |-> NoID, Method |-> "POST", ServerKey |-> "",
       JSON |-> TRUE, Header |-> h,
       Body |-> [PlainRequest EXCEPT !.Provider = p, !.Model = ""]] :
        h \in SecretKeys, p \in {"Google", "Ollama"} }

\* One client of POST /run, Cancel and the sequencer, with every outcome of
\* the worker.
InitSecret ==
    /\ InitQueue
    /\ srvPc = "serving"
    /\ httpReq \in SecretRequests
    /\ resp = NoResponse
    /\ InitCallers

NextSecret ==
    \/ handleRun(httpReq, MaxSecrets)
    \/ \E id \in IDs : SubmitSend(id)
    \/ \E id \in IDs : Cancel(id)
    \/ RunRecv
    \/ ProcessBegin
    \/ ProcessRegister
    \/ ProcessStart
    \/ ProcessStartFails
    \/ WorkerExit(NaturalOutcomes)
    \/ ProcessFinish

SpecSecret == InitSecret /\ [][NextSecret]_vars

\* Every operation, and main's shutdown: no request is accepted once the
\* signal has arrived and nothing runs once the process has exited.
NextShutdown ==
    \/ srvPc = "serving" /\ SubmitLock(FreshID, MaxTasks)
    \/ srvPc = "serving" /\ \E id \in IDs : Cancel(id)
    \/ srvPc = "serving" /\ ClearBegin
    \/ srvPc # "exited" /\ \E id \in IDs : SubmitSend(id)
    \/ srvPc # "exited" /\ ClearCheck
    \/ srvPc # "exited" /\ ClearRecv
    \/ srvPc # "exited" /\ RunRecv
    \/ srvPc # "exited" /\ ProcessBegin
    \/ srvPc # "exited" /\ ProcessRegister
    \/ srvPc # "exited" /\ ProcessStart
    \/ srvPc # "exited" /\ ProcessStartFails
    \/ srvPc # "exited" /\ WorkerExit(QueueOutcomes)
    \/ srvPc # "exited" /\ ProcessFinish
    \/ Signal
    \/ ServerExit

SpecShutdown == Init /\ [][NextShutdown]_vars

\* Fairness as above, with every outcome of the worker.
FairnessWorker ==
    /\ WF_vars(\E id \in IDs : SubmitSend(id))
    /\ WF_vars(RunRecv)
    /\ WF_vars(ProcessBegin)
    /\ WF_vars(ProcessRegister)
    /\ WF_vars(ProcessStart \/ ProcessStartFails)
    /\ WF_vars(WorkerExit(NaturalOutcomes))
    /\ WF_vars(ProcessFinish)

\* Submit and the sequencer, with every outcome of the worker.
NextFailing ==
    \/ SubmitLock(FreshID, MaxFailing)
    \/ \E id \in IDs : SubmitSend(id)
    \/ RunRecv
    \/ ProcessBegin
    \/ ProcessRegister
    \/ ProcessStart
    \/ ProcessStartFails
    \/ WorkerExit(NaturalOutcomes)
    \/ ProcessFinish

FairSpecFailing == Init /\ [][NextFailing]_vars /\ FairnessWorker

\* Submit with the IDs randomID() can return, and the sequencer.
NextRandom ==
    \/ SubmitRandom(MaxTasks)
    \/ \E id \in IDs : SubmitSend(id)
    \/ RunRecv
    \/ ProcessBegin
    \/ ProcessRegister
    \/ ProcessStart
    \/ ProcessStartFails
    \/ WorkerExit(QueueOutcomes)
    \/ ProcessFinish

SpecRandom == Init /\ [][NextRandom]_vars

\* The requests a client can send to the server, and the server keys that
\* can be configured.
Paths == {"/run", "/task/", "/queue", "/health", "/other"}
Methods == {"GET", "POST", "DELETE"}
ServerKeys == {"", "s"}
SentKeys == {"", "s", "x"}
AuthRequests ==
    { [Path |-> p, ID |-> i, Method |-> m, ServerKey |-> k, JSON |-> TRUE,
       Header |-> PlainKey, Body |-> PlainRequest] :
        p \in Paths \ {"/task/"}, i \in {NoID}, m \in Methods,
        k \in SentKeys }
    \cup
    { [Path |-> "/task/", ID |-> i, Method |-> m, ServerKey |-> k,
       JSON |-> TRUE, Header |-> PlainKey, Body |-> PlainRequest] :
        i \in {NoID, 1}, m \in Methods, k \in SentKeys }

\* One client sending its request to the server, other clients' accepted
\* submissions, and the channel and Clear's drain loop.
InitAuth ==
    /\ InitQueue
    /\ srvPc = "serving"
    /\ httpReq \in AuthRequests
    /\ resp = NoResponse
    /\ serverAPIKey \in ServerKeys
    /\ clientPc = "start"
    /\ clientId = NoID

NextAuth ==
    \/ ServeHTTP(httpReq, MaxAuth)
    \/ SubmitLock(FreshID, MaxAuth)
    \/ \E id \in IDs : SubmitSend(id)
    \/ ClearCheck
    \/ ClearRecv

SpecAuth == InitAuth /\ [][NextAuth]_vars

\* The CLI client, other clients' Submit, Cancel and Clear, and the
\* sequencer with every outcome of the worker.
NextClient ==
    \/ ClientSubmit(MaxWaits)
    \/ ClientPoll
    \/ ClientInterrupt
    \/ SubmitLock(FreshID, MaxWaits)
    \/ \E id \in IDs : SubmitSend(id)
    \/ \E id \in IDs : Cancel(id)
    \/ ClearBegin
    \/ ClearCheck
    \/ ClearRecv
    \/ RunRecv
    \/ ProcessBegin
    \/ ProcessRegister
    \/ ProcessStart
    \/ ProcessStartFails
    \/ WorkerExit(NaturalOutcomes)
    \/ ProcessFinish

\* The poll loop sleeps and polls again; Clear's loop and the sequencer
\* run as above.  Nothing obliges the user to interrupt.
FairnessClient ==
    /\ FairnessWorker
    /\ WF_vars(ClearCheck)
    /\ WF_vars(ClearRecv)
    /\ WF_vars(ClientPoll)

FairSpecClient == Init /\ [][NextClient]_vars /\ FairnessClient

-----------------------------------------------------------------------------
(* Properties *)

\* The IDs q.tasks holds, and whether a heap cell is in q.tasks.
TrackedIDs == {i \in IDs : tasks[i] # NoTask}
Tracked(o) == \E i \in IDs : tasks[i] = o
StatusOf(id) == heap[tasks[id]].Status

\* C1: in every reachable state at most one tracked job has status
\* "running".
C1_AtMostOneRunning ==
    Cardinality({i \in TrackedIDs : StatusOf(i) = "running"}) <= 1

\* C1 witness: a job is running after the sequencer has already run another
\* tracked job to its end.
C1_Witness ==
    \E i, j \in TrackedIDs :
        /\ i # j
        /\ StatusOf(i) = "running"
        /\ StatusOf(j) \in {"completed", "failed"}

\* C2 (as claimed): a job that Cancel moved from queued to cancelled keeps
\* status cancelled and never has a worker spawned for it.
C2_CancelledQueuedNeverRuns ==
    \A o \in cancelledQueued :
        /\ heap[o].Status = "cancelled"
        /\ o \notin spawned

\* The forward moves of a status; "none" is a record not yet created.
ForwardMoves ==
    { <<"none", "queued">>,
      <<"queued", "running">>, <<"queued", "cancelled">>,
      <<"running", "completed">>, <<"running", "failed">>,
      <<"running", "cancelled">> }

\* C3 (as claimed): every change of a job's status is a forward move, so a
\* completed, failed or cancelled job never changes status again.
C3_StatusOnlyForward ==
    [][\A o \in Objs :
          heap'[o].Status # heap[o].Status =>
              <<heap[o].Status, heap'[o].Status>> \in ForwardMoves]_vars

\* C4: a job for which Cancel returned true while it was running has status
\* cancelled ever after, whatever its worker produced.
C4_CancellationWins ==
    \A o \in cancelledRunning : heap[o].Status = "cancelled"

\* C4 witness: process has returned for a job that was cancelled while
\* running and whose worker had been spawned and wrote its log.
C4_Witness ==
    \E o \in cancelledRunning :
        /\ o \in spawned
        /\ seqTask # o
        /\ heap[o].Logs = "stderr"

\* C5 (as claimed): whenever Cancel returned true for a running job, a kill
\* has been issued to that job's worker.
C5_CancelRunningKills == cancelledRunning \subseteq killIssued

\* C6: under fair scheduling, with every worker exiting and without Clear,
\* every submitted job eventually holds a terminal status for good.
C6_AllJobsTerminate ==
    \A o \in Objs :
        [](heap[o].Status # "none" => <>[](heap[o].Status \in Terminal))

\* C6 witness: every submission has been made, one job was cancelled, and
\* all jobs are terminal with the sequencer idle.
C6_Witness ==
    /\ nextObj > MaxTasks
    /\ seqPc = "idle"
    /\ \A o \in 1..MaxTasks : heap[o].Status \in Terminal
    /\ \E o \in 1..MaxTasks : heap[o].Status = "cancelled"
    /\ \E o \in 1..MaxTasks : heap[o].Status = "completed"

\* C7 (as claimed): whenever the sequencer marks a job running, that job
\* was the head of the pending order immediately before.
C7_StartsHeadOfPendingOrder ==
    [][(seqPc = "dequeued" /\ seqPc' = "marked") =>
          (pendingOrder # <<>> /\ Head(pendingOrder) = seqId)]_vars

\* C8 (as claimed): a Clear issued while a submission is still to come
\* returns, so that the later Submit is accepted, and every job tracked
\* after a Clear eventually reaches a terminal status unless a later Clear
\* discards it.
C8_SequencerResumesAfterClear ==
    /\ (clearPc # "idle" /\ nextObj <= MaxTasks) ~> LockFree
    /\ \A o \in Objs :
          (nClears > 0 /\ Tracked(o)) ~>
              (heap[o].Status \in Terminal \/ ~Tracked(o))

\* C9 (as claimed): while a worker runs, a Submit that has stored its record
\* can complete its channel send, however many jobs are queued.
C9_SubmitNeverWaits ==
    (seqPc = "run" /\ sending # {}) => Len(pending) < PendingCap

\* The queued tracked jobs submitted before id.
QueuedBefore(id) ==
    {j \in TrackedIDs : StatusOf(j) = "queued" /\ tasks[j] < tasks[id]}

C11_PositionMatchesStatus ==
    \A i \in IDs :
        /\ (Position(i) = 0) <=> (tasks[i] # NoTask /\ StatusOf(i) = "running")
        /\ (Position(i) > 0) <=> (tasks[i] # NoTask /\ StatusOf(i) = "queued")
        /\ (Position(i) = -1) <=>
               (tasks[i] = NoTask \/ StatusOf(i) \in Terminal)

\* C12 (as claimed): a Cancel(id) call returns true exactly when job id
\* exists and its status is queued or running at the call.
C12_CancelTrueIffActive ==
    \A i \in IDs :
        LockFree =>
            (CancelReturnsTrue(i) <=>
                (tasks[i] # NoTask /\ StatusOf(i) \in {"queued", "running"}))

\* C13 (as claimed): the step that cancels a queued job sets its finish
\* time, leaves every other record unchanged and removes only its entry from
\* the pending order; and Position of a job cancelled while queued is -1
\* from then on.
C13_CancelQueuedFrame ==
    /\ [](\A o \in cancelledQueued : Position(heap[o].ID) = -1)
    /\ [][\A o \in Objs :
            (heap[o].Status = "queued" /\ heap'[o].Status = "cancelled") =>
                /\ heap'[o].FinishedAt # 0
                /\ \A p \in Objs \ {o} : heap'[p] = heap[p]
                /\ pendingOrder' =
                       SelectSeq(pendingOrder, LAMBDA x : x # heap[o].ID)]_vars

C15_ClearKillsExecuting ==
    (seqTask # NoTask /\ ~Tracked(seqTask)) => seqTask \in killIssued

\* C16: at most one worker process is alive (spawned and not yet exited).
C16_OneWorkerAlive == Cardinality(spawned \ exited) <= 1

\* C16 witness: a worker is alive after the worker of an earlier job, which
\* was cancelled while running or discarded by Clear, has exited.
C16_Witness ==
    \E o \in spawned \ exited :
        \E p \in exited :
            /\ p < o
            /\ (p \in cancelledRunning \/ ~Tracked(p))

\* C17 (as claimed): for every tracked job the finished timestamp is set if
\* and only if its status is completed, failed or cancelled.
C17_FinishedIffTerminal ==
    \A i \in TrackedIDs :
        (heap[tasks[i]].FinishedAt # 0) <=> (StatusOf(i) \in Terminal)

\* C18 (as claimed): whenever no Submit is between storing and sending, the
\* sequencer is not between receiving and marking and no Clear is under way,
\* Size() is the number of tracked jobs with status queued.
C18_SizeIsQueuedCount ==
    (sending = {} /\ seqPc # "dequeued" /\ LockFree) =>
        Size = Cardinality({i \in TrackedIDs : StatusOf(i) = "queued"})

\* C19 (as claimed): Current() is non-empty exactly when some tracked job
\* has status running, and then it is that job's ID.
C19_CurrentIsRunningJob ==
    /\ (Current # NoID) <=> (\E i \in TrackedIDs : StatusOf(i) = "running")
    /\ \A i \in TrackedIDs : StatusOf(i) = "running" => Current = i

\* C20 (as claimed): the records reached through the map All() returned
\* stay as they were when All() returned.
C20_AllIsFrozen ==
    \A i \in IDs : snapPtr[i] # NoTask => heap[snapPtr[i]] = snapVal[i]

\* The credentials another submission of the same request could carry.
OtherKeys(t) == {k \in SecretKeys : ~KeyMissing(k, t.Request.Provider)}

\* The opaque strings of a serialized record.
StringsOf(m) ==
    {m.status, m.result, m.error, m.logs, m.steps, m.request.Provider,
     m.request.Model}

C22_NoJobRunningAtExit ==
    srvPc = "exited" =>
        /\ \A i \in TrackedIDs : StatusOf(i) # "running"
        /\ proc # "alive"

\* C23: under fair scheduling, once a job has ended failed, every job
\* still queued is eventually dequeued and started by the sequencer.
C23_FailureDoesNotHalt ==
    \A o, p \in Objs :
        (heap[o].Status = "failed" /\ heap[p].Status = "queued") ~>
            (heap[p].StartedAt # 0 /\ heap[p].Status # "queued")

\* C23 witness: a job failed on unparseable output and a job submitted
\* after it has been started.
C23_Witness ==
    \E o, p \in Objs :
        /\ o < p
        /\ heap[o].Status = "failed"
        /\ heap[o].Error = "invalid worker output: raw"
        /\ heap[p].StartedAt # 0
        /\ p \in spawned

C25_OutcomeOnlyWhenDone ==
    \A o \in Objs :
        heap[o].Status \in {"queued", "running", "cancelled"} =>
            /\ heap[o].Success = FALSE
            /\ heap[o].Result = ""
            /\ heap[o].Error = ""
            /\ heap[o].Logs = ""
            /\ heap[o].Steps = ""

BlankGoal(g) == \A i \in 1..Len(g) : g[i] \in Space

UnsupportedProvider(p) == p # "" /\ p \notin validProviders

\* The segments of s between its dots.
RECURSIVE Segments(_)
Segments(s) ==
    IF \A i \in 1..Len(s) : s[i] # "." THEN <<s>>
    ELSE LET d == CHOOSE i \in 1..Len(s) :
                      s[i] = "." /\ \A j \in 1..(i - 1) : s[j] # "."
         IN  <<SubSeq(s, 1, d - 1)>> \o Segments(SubSeq(s, d + 1, Len(s)))

\* A package name: two or more segments, each a letter followed by letters,
\* digits and underscores.
WellFormedPackage(s) ==
    /\ Len(Segments(s)) >= 2
    /\ \A n \in 1..Len(Segments(s)) :
          LET g == Segments(s)[n]
          IN  /\ g # <<>>
              /\ g[1] \in Letters
              /\ \A i \in 1..Len(g) : g[i] \in Letters \cup Digits \cup {"_"}

MalformedApp(a) == a # <<>> /\ ~WellFormedPackage(a)

\* The provider a request is for: Google when it names none.
ProviderOf(r) == IF r.Body.Provider = "" THEN "Google" ELSE r.Body.Provider

MissingCredential(r) ==
    r.Header = "" /\ r.Body.APIKey = "" /\ ProviderOf(r) # "Ollama"

FailsValidation(r) ==
    \/ BlankGoal(r.Body.Goal)
    \/ UnsupportedProvider(r.Body.Provider)
    \/ MalformedApp(r.Body.App)
    \/ MissingCredential(r)

\* A well-formed POST /run request.
Posted(r) == r.Method = "POST" /\ r.JSON

\* C27: the step in which handleRun answers a submission that fails
\* validation answers 400 and leaves the store, the records, the pending
\* order and the work channel (and the sends under way) unchanged.
C27_InvalidNeverEnqueued ==
    [][(Posted(httpReq) /\ FailsValidation(httpReq) /\ resp' # resp) =>
          /\ resp'.code = 400
          /\ resp'.task = NoTask
          /\ UNCHANGED <<tasks, heap, pendingOrder, pending, sending,
                         nextObj>>]_vars

\* C27 witness: a submission with a malformed app identifier was rejected
\* while another job was stored and its ID was in the channel.
C27_Witness ==
    /\ resp.code = 400
    /\ resp.error = "invalid app package name"
    /\ TrackedIDs # {}
    /\ pending # <<>>

\* C28: a submission without credential and otherwise valid is accepted
\* when its provider is Ollama and otherwise rejected with the
\* credential-required error, also when it names no provider.
C28_CredentialUnlessLocal ==
    (/\ Posted(httpReq)
     /\ httpReq.Header = "" /\ httpReq.Body.APIKey = ""
     /\ ~BlankGoal(httpReq.Body.Goal)
     /\ ~UnsupportedProvider(httpReq.Body.Provider)
     /\ ~MalformedApp(httpReq.Body.App)
     /\ resp # NoResponse)
    => IF httpReq.Body.Provider = "Ollama"
       THEN resp.code = 200 /\ resp.task # NoTask
       ELSE /\ resp.code = 400
            /\ resp.error = "API key required"
            /\ resp.task = NoTask

\* C28 witness: an Ollama submission without credential was accepted and
\* its record is stored.
C28_Witness ==
    /\ httpReq.Header = "" /\ httpReq.Body.APIKey = ""
    /\ httpReq.Body.Provider = "Ollama"
    /\ resp.code = 200
    /\ heap[resp.task].Status = "queued"
    /\ heap[resp.task].apiKey = ""

\* C29: every record stores a step budget in 1..100, and the record made
\* for a request stores 30 for a requested value of 0 or less (0 is a
\* missing one), 100 for one above 100 and the requested value otherwise.
C29_StepBudgetClamped ==
    /\ \A o \in Objs :
          heap[o].Status # "none" => heap[o].Request.MaxSteps \in 1..100
    /\ resp.task # NoTask =>
          LET n == httpReq.Body.MaxSteps
              stored == heap[resp.task].Request.MaxSteps
          IN  /\ n <= 0 => stored = 30
              /\ n > 100 => stored = 100
              /\ n \in 1..100 => stored = n

\* C29 witness: a request for 101 steps is stored with 100.
C29_Witness ==
    /\ resp.task # NoTask
    /\ httpReq.Body.MaxSteps = 101
    /\ heap[resp.task].Request.MaxSteps = 100

\* The documented provider-to-default-model table.
DefaultModelTable ==
    [p \in validProviders |->
        CASE p = "Google" -> "gemini-2.0-flash"
          [] p = "GoogleGenAI" -> "gemini-2.0-flash"
          [] p = "Anthropic" -> "claude-sonnet-4-20250514"
          [] p = "OpenAI" -> "gpt-4o"
          [] p = "DeepSeek" -> "deepseek-chat"
          [] p = "Ollama" -> "llama3.2"]

\* C30: the record made for a request that names no model stores the
\* default model of its provider, and the named model otherwise.
C30_ModelDefaulted ==
    resp.task # NoTask =>
        LET t == heap[resp.task].Request
        IN  /\ t.Provider = ProviderOf(httpReq)
            /\ httpReq.Body.Model = "" => t.Model = DefaultModelTable[t.Provider]
            /\ httpReq.Body.Model # "" => t.Model = httpReq.Body.Model

\* C30 witness: an Anthropic request without model is stored with
\* Anthropic's default model.
C30_Witness ==
    /\ resp.task # NoTask
    /\ httpReq.Body.Provider = "Anthropic"
    /\ httpReq.Body.Model = ""
    /\ heap[resp.task].Request.Model = "claude-sonnet-4-20250514"

\* An error text that carries the worker's raw standard output.
IncludesRawOutput(e) == e = "invalid worker output: raw"

\* C31: whenever the worker has written non-JSON to standard output and the
\* job was not cancelled, process leaves the job failed with an error text
\* that includes the raw output.
C31_NonJSONKeepsRawOutput ==
    [][(/\ seqPc = "ran" /\ seqPc' = "idle"
        /\ outcome.out = "nonjson"
        /\ heap[seqTask].Status # "cancelled")
       => /\ heap'[seqTask].Status = "failed"
          /\ IncludesRawOutput(heap'[seqTask].Error)]_vars

\* C32: when cmd.Run() has returned an error and the job was not cancelled,
\* process leaves the job failed with the captured standard error as its
\* error text if there is any, else with the exit error; and a record
\* becomes completed only in process, for a worker that exited zero and
\* wrote an envelope with ok=true.
C32_ExitErrorText ==
    [][/\ (/\ seqPc = "ran" /\ seqPc' = "idle"
           /\ outcome.err
           /\ heap[seqTask].Status # "cancelled")
          => /\ heap'[seqTask].Status = "failed"
             /\ heap'[seqTask].Error =
                  IF outcome.stderr THEN "stderr" ELSE "exit error"
       /\ \A o \in Objs :
            (heap'[o].Status = "completed" /\ heap[o].Status # "completed")
            => /\ seqPc = "ran" /\ o = seqTask
               /\ ~outcome.err
               /\ outcome.out \in {"ok_success", "ok_nosuccess"}]_vars

\* A worker that wrote to standard error and exited non-zero has left its
\* job failed, and another job has completed.
C32_Witness ==
    /\ \E o \in exited :
         heap[o].Status = "failed" /\ heap[o].Error = "stderr"
    /\ \E o \in exited : heap[o].Status = "completed"

\* C34: Submit never assigns an ID that q.tasks holds, so that no record in
\* q.tasks is replaced by a submission and q.pendingOrder never holds an
\* ID twice.
C34_IDsUnique ==
    [][nextObj' # nextObj
       => /\ \A i \in TrackedIDs : tasks'[i] = tasks[i]
          /\ \A k, l \in 1..Len(pendingOrder') :
               pendingOrder'[k] = pendingOrder'[l] => k = l]_vars

\* C35: a Clear at its receive is never left without anything to receive:
\* the channel holds an ID or a Submit is about to send one.
C35_ClearNeverStuck ==
    clearPc = "recv" => (Len(pending) > 0 \/ sending # {})

\* The number of times id occurs in s.
Count(s, id) == Cardinality({k \in 1..Len(s) : s[k] = id})

C37_SubmitAtomicWithClear ==
    [][\A id \in sending \ sending' :
          /\ tasks'[id] # NoTask
          /\ heap'[tasks'[id]].ID = id]_vars

C39_FinishTimeKept ==
    [][\A o \in Objs :
          heap[o].Status \in Terminal
          => heap'[o].FinishedAt = heap[o].FinishedAt]_vars

\* C33: with a server key set, a request to a path other than /health
\* whose X-Server-Key is not that key is answered 401 and changes nothing
\* of the queue; a request to /health is never answered 401, and GET /health
\* is answered 200; without a server key no request is answered 401.
C33_ServerKeyGuardsQueue ==
    [][resp' # resp
       => /\ (/\ serverAPIKey # ""
              /\ httpReq.Path # "/health"
              /\ httpReq.ServerKey # serverAPIKey)
             => (resp'.code = 401 /\ UNCHANGED queue)
          /\ httpReq.Path = "/health"
             => /\ resp'.code # 401
                /\ httpReq.Method = "GET" => resp'.code = 200
          /\ serverAPIKey = "" => resp'.code # 401
          /\ (serverAPIKey # "" /\ httpReq.ServerKey = serverAPIKey)
             => resp'.code # 401]_vars

\* DELETE /queue without the key has been refused while a job is tracked.
C33_Witness ==
    /\ serverAPIKey # ""
    /\ httpReq.Path = "/queue" /\ httpReq.Method = "DELETE"
    /\ httpReq.ServerKey = ""
    /\ resp.code = 401
    /\ TrackedIDs # {}

\* The CLI client has left its poll loop.
ClientExited == clientPc \in {"exit0", "exit1", "exit130"}

\* C40: with a server that goes on answering (no Clear holds q.mu for
\* ever), once the client's job holds a terminal status or is no longer in
\* q.tasks the waiting client eventually exits; it exits 0 only on a
\* completed job with success=true, and on a cancelled job it exits 130.
C40_ClientExits ==
    /\ (<>[]LockFree)
       => ((/\ clientPc = "waiting"
            /\ clientId \notin sending
            /\ \/ tasks[clientId] = NoTask
               \/ heap[tasks[clientId]].Status \in Terminal)
           ~> ClientExited)
    /\ [][clientPc' # clientPc /\ clientPc = "waiting"
          => /\ clientPc' = "exit0"
                => /\ tasks[clientId] # NoTask
                   /\ heap[tasks[clientId]].Status = "completed"
                   /\ heap[tasks[clientId]].Success
             /\ (/\ tasks[clientId] # NoTask
                 /\ heap[tasks[clientId]].Status = "cancelled")
                => clientPc' = "exit130"]_vars

=============================================================================
